---------------------------- MODULE Spec2Model ----------------------------
(***************************************************************************)
(* The multi-index recursion engine of thewalrus/_hermite_multidimensional:*)
(* partition, dec, remove, the SQRT table, hermite_multidimensional_numba, *)
(* grad_hermite_multidimensional_numba with their per-index fill loops,    *)
(* and the control flow of hermite_multidimensional.                       *)
(*                                                                         *)
(* Positions in a multi-index are 1-based here (Python: 0-based); the      *)
(* coordinates themselves (photon numbers) are the Python values.          *)
(* Tensor entries are elements of the prime field of order Modulus, in     *)
(* which 0..TableLen-1 all have square roots: every product, difference    *)
(* and quotient of the code is computed exactly as written.                *)
(***************************************************************************)
EXTENDS Integers, Sequences, FiniteSets, TLC

\* ------------------------------------------------------------- bounds
MaxN == 2
MaxCutoff == 3
PartMaxLen == 3
MaxPhotons == 7
TableLen == 4
CacheSize == 3
MaxParEntries == 9

\* ------------------------------------------------------------ numbers
Modulus == 71

Val == 0..(Modulus - 1)

Add(a, b) == (a + b) % Modulus
Sub(a, b) == (a - b) % Modulus
Mul(a, b) == (a * b) % Modulus
InvTable == [b \in 1..(Modulus - 1) |-> CHOOSE x \in Val : (x * b) % Modulus = 1]
\* a / b; a zero divisor never gets here (the step traps it first, see DivTrap)
Div(a, b) == IF b = 0 THEN 0 ELSE Mul(a, InvTable[b])

\* np.sqrt(k): the square root of k in the field (the smaller of the two)
FieldSqrt(k) == CHOOSE x \in Val : (x * x) % Modulus = k % Modulus /\
                   \A z \in Val : (z * z) % Modulus = k % Modulus => x <= z

\* SQRT = np.sqrt(np.arange(1000)), scaled to TableLen entries (index k at k+1)
SQRT == [k \in 1..TableLen |-> FieldSqrt(k - 1)]

\* ------------------------------------------------------ multi-indices
Min(a, b) == IF a < b THEN a ELSE b

RECURSIVE SumSeq(_)
SumSeq(s) == IF s = <<>> THEN 0 ELSE Head(s) + SumSeq(Tail(s))

\* (0,) * n
ZeroIndex(n) == [j \in 1..n |-> 0]

\* range(k)
Range(k) == [j \in 1..k |-> j - 1]

\* range(lo, hi)
RangeFrom(lo, hi) == [j \in 1..(hi - lo) |-> lo + j - 1]

RECURSIVE Concat(_)
Concat(ss) == IF ss = <<>> THEN <<>> ELSE Head(ss) \o Concat(Tail(ss))

\* itertools.product(*ranges): the tuples in odometer order, last position fastest
RECURSIVE Product(_)
Product(ranges) ==
  IF ranges = <<>> THEN << <<>> >>
  ELSE LET rest == Product(Tail(ranges))
           hd == Head(ranges)
       IN Concat([a \in 1..Len(hd) |-> [t \in 1..Len(rest) |-> <<hd[a]>> \o rest[t]]])

\* a plausible slip: range(min(photons, i - 1)) loses the top candidate
PartitionShortRange(photons, cutoff) ==
  SelectSeq(Product([j \in 1..Len(cutoff) |-> Range(Min(photons, cutoff[j] - 1))]),
            LAMBDA comb : SumSeq(comb) = photons)

\* partition with the filter sum(comb) >= photons: higher levels come early
PartitionAtLeast(photons, cutoff) ==
  SelectSeq(Product([j \in 1..Len(cutoff) |-> Range(Min(photons, cutoff[j] - 1) + 1)]),
            LAMBDA comb : SumSeq(comb) >= photons)

\* a slip: range(min(photons, i) + 1) lets a coordinate reach its cutoff
PartitionWideRange(photons, cutoff) ==
  SelectSeq(Product([j \in 1..Len(cutoff) |-> Range(Min(photons, cutoff[j]) + 1)]),
            LAMBDA comb : SumSeq(comb) = photons)

\* partition(photons, cutoff), the function under @lru_cache
Partition(photons, cutoff) ==
  SelectSeq(Product([j \in 1..Len(cutoff) |-> Range(Min(photons, cutoff[j] - 1) + 1)]),
            LAMBDA comb : SumSeq(comb) = photons)

\* dec(tup, i)
dec(tup, i) == [tup EXCEPT ![i] = tup[i] - 1]

\* remove(pattern): the pairs (p, dec(pattern, p)) for the positive positions, in order
remove(pattern) ==
  LET pos == SelectSeq([p \in 1..Len(pattern) |-> p], LAMBDA p : pattern[p] > 0)
  IN [j \in 1..Len(pos) |-> <<pos[j], dec(pattern, pos[j])>>]

\* ------------------------------------------------------------ tensors
\* A numpy array: its shape and its entries by multi-index.
NoArray == [shape |-> <<>>, data |-> <<>>]
Allocated(t) == t.shape # <<>>

RECURSIVE MaxSeq(_)
MaxSeq(s) == IF s = <<>> THEN 0 ELSE LET m == MaxSeq(Tail(s)) IN IF Head(s) > m THEN Head(s) ELSE m

\* the multi-indices of an array of the given shape
Indices(shape) ==
  {k \in [1..Len(shape) -> 0..(MaxSeq(shape) - 1)] : \A j \in 1..Len(shape) : k[j] < shape[j]}

\* np.zeros(shape)
Zeros(shape) == [shape |-> shape, data |-> [k \in Indices(shape) |-> 0]]

\* An index the compiled loops can address: each coordinate in -shape_j..shape_j-1
\* (negative coordinates wrap around; nothing else is checked in nopython mode).
Addressable(shape, k) ==
  /\ Len(k) = Len(shape)
  /\ \A j \in 1..Len(k) : -shape[j] <= k[j] /\ k[j] < shape[j]
WrapIndex(shape, k) == [j \in 1..Len(k) |-> IF k[j] < 0 THEN k[j] + shape[j] ELSE k[j]]

\* t[k] as the compiled code reads it; g is what an access outside the buffer finds
Load(t, k, g) == IF Addressable(t.shape, k) THEN t.data[WrapIndex(t.shape, k)] ELSE g

\* t[k] = v; a store outside the buffer lands outside the tensor
Store(t, k, v) ==
  IF Addressable(t.shape, k)
  THEN [t EXCEPT !.data[WrapIndex(t.shape, k)] = v]
  ELSE t

\* SQRT[k] as the compiled code reads it
SqrtAt(k, g) ==
  IF 0 <= k /\ k < TableLen THEN SQRT[k + 1]
  ELSE IF -TableLen <= k /\ k < 0 THEN SQRT[k + TableLen + 1]
  ELSE g

\* ------------------------------------------------------- per-index steps
\* i = 0; for i, val in enumerate(idx): if val > 0: break
\* (the first positive position; the last position when there is none)
FirstPositive(idx) ==
  LET positive == {p \in 1..Len(idx) : idx[p] > 0}
  IN IF positive # {} THEN CHOOSE p \in positive : \A q \in positive : p <= q
     ELSE IF Len(idx) > 0 THEN Len(idx) ELSE 1

\* The tensor entries one per-index step reads: [ki] and every [kl] of remove(ki)
StepReads(idx) ==
  LET ki == dec(idx, FirstPositive(idx))
      rem == remove(ki)
  IN {ki} \cup {rem[j][2] : j \in 1..Len(rem)}

\* The SQRT entries one per-index step reads
StepSqrtReads(idx) ==
  LET i == FirstPositive(idx)
      ki == dec(idx, i)
      rem == remove(ki)
  IN {idx[i]} \cup {ki[rem[j][1]] : j \in 1..Len(rem)}

\* Every access of the step at idx stays inside its buffer
StepInBounds(shape, idx) ==
  /\ Addressable(shape, idx)
  /\ \A k \in StepReads(idx) : Addressable(shape, k)
  /\ \A k \in StepSqrtReads(idx) : -TableLen <= k /\ k < TableLen

\* R[i, l] as the compiled code reads it (positions counted from 1 here); g is
\* what an access outside the matrix finds
RAt(Rm, i, l, g) ==
  IF i \in 1..Len(Rm) /\ l \in 1..Len(Rm[i]) THEN Rm[i][l] ELSE g

\* Every R[i, l] of the step at idx lies inside the matrix
StepRInBounds(Rm, idx) ==
  LET i == FirstPositive(idx)
      rem == remove(dec(idx, i))
  IN \A j \in 1..Len(rem) : i \in 1..Len(Rm) /\ rem[j][1] \in 1..Len(Rm[i])

\* The final divisor of the step at idx is zero: the compiled division raises
DivTrap(idx) == SqrtAt(idx[FirstPositive(idx)], 0) = 0

\* for l, kl in remove(ki): u -= SQRT[ki[l]] * R[i, l] * array[kl]
RECURSIVE ValueAcc(_, _, _, _, _, _)
ValueAcc(u, rem, ki, i, h, g) ==
  IF rem = <<>> THEN u
  ELSE LET l == Head(rem)[1]
           kl == Head(rem)[2]
       IN ValueAcc(Sub(u, Mul(Mul(SqrtAt(ki[l], g), RAt(h.R, i, l, g)), Load(h.array, kl, g))),
                   Tail(rem), ki, i, h, g)

\* fill_hermite_multidimensional_numba_loop(array, idx, R, y) on the heap h
fill_hermite_multidimensional_numba_loop(h, idx, g) ==
  LET i == FirstPositive(idx)
      ki == dec(idx, i)
      u0 == Mul(h.y[i], Load(h.array, ki, g))
      u == ValueAcc(u0, remove(ki), ki, i, h, g)
  IN [h EXCEPT !.array = Store(h.array, idx, Div(u, SqrtAt(idx[i], g)))]

\* for l, kl in remove(ki): dy -= ...; dR -= ... (the pair <<dy, dR>>)
RECURSIVE GradAcc(_, _, _, _, _, _)
GradAcc(acc, rem, ki, i, h, g) ==
  IF rem = <<>> THEN acc
  ELSE LET l == Head(rem)[1]
           kl == Head(rem)[2]
           dy == Sub(acc[1], Mul(Mul(SqrtAt(ki[l], g), Load(h.dG_dy, kl, g)), RAt(h.R, i, l, g)))
           dR == Sub(acc[2], Mul(SqrtAt(ki[l], g),
                                 Add(Mul(RAt(h.R, i, l, g), Load(h.dG_dR, kl, g)), Load(h.array, kl, g))))
       IN GradAcc(<<dy, dR>>, Tail(rem), ki, i, h, g)

\* the pair <<dy / SQRT[idx[i]], dR / SQRT[idx[i]]>> of the gradient step at idx
GradValues(h, idx, g) ==
  LET i == FirstPositive(idx)
      ki == dec(idx, i)
      dy0 == Add(Mul(h.y[i], Load(h.dG_dy, ki, g)), Load(h.array, ki, g))
      dR0 == Mul(h.y[i], Load(h.dG_dR, ki, g))
      acc == GradAcc(<<dy0, dR0>>, remove(ki), ki, i, h, g)
  IN <<Div(acc[1], SqrtAt(idx[i], g)), Div(acc[2], SqrtAt(idx[i], g))>>

\* a slip: the dy result stored to array[idx] instead of dG_dy[idx]
fill_grad_storing_to_array(h, idx, g) ==
  [h EXCEPT !.dG_dR = Store(h.dG_dR, idx, GradValues(h, idx, g)[2]),
            !.array = Store(h.array, idx, GradValues(h, idx, g)[1])]

\* fill_grad_hermite_multidimensional_numba_loop(dG_dR, dG_dy, array, idx, R, y) on the heap h
fill_grad_hermite_multidimensional_numba_loop(h, idx, g) ==
  [h EXCEPT !.dG_dR = Store(h.dG_dR, idx, GradValues(h, idx, g)[2]),
            !.dG_dy = Store(h.dG_dy, idx, GradValues(h, idx, g)[1])]

\* ------------------------------------------------------- lru_cache
\* a cache that tells calls apart by their photon number alone
CacheKeyPhotonsOnly(photons, cutoff) == <<photons>>

\* @lru_cache(): the entries [key, val], most recently used first, at most
\* CacheSize of them (the default maxsize of 128, scaled); the key is the
\* argument tuple.
CacheKey(photons, cutoff) == <<photons, cutoff>>

\* partition(photons, cutoff) through the cache: the list returned and the cache after
CachedPartition(c, photons, cutoff) ==
  LET key == CacheKey(photons, cutoff)
      hits == {j \in 1..Len(c) : c[j].key = key}
  IN IF hits # {}
     THEN LET j == CHOOSE j \in hits : TRUE
          IN [val |-> c[j].val,
              cache |-> <<c[j]>> \o SubSeq(c, 1, j - 1) \o SubSeq(c, j + 1, Len(c))]
     ELSE LET full == <<[key |-> key, val |-> Partition(photons, cutoff)]>> \o c
          IN [val |-> full[1].val, cache |-> SubSeq(full, 1, Min(Len(full), CacheSize))]

\* ------------------------------------------------------------- state
VARIABLES
  pc,       \* "idle", "sweep" (inside the photon loops), "done", "part"
  fn,       \* the function called: "none", "numba", "grad", "hermite", "partition"
  mem,      \* the arrays: R, y, array, dG_dC, dG_dR, dG_dy
  cutoff,   \* the cutoff tuple of the call (after tuple(cutoff))
  C,        \* the C argument of the call
  todo,     \* the photon numbers the outer loop has still to take
  photons,  \* the outer loop's variable
  level,    \* the list partition(photons, cutoff) returned to the inner loop
  pos,      \* the inner loop's position in level
  cache,    \* the lru_cache of partition
  outcome,  \* "none", "returned", "ValueError", "ZeroDivisionError", "crash"
  log,      \* the indices stored to by the call, in order
  step,     \* the last per-index step: its index, chosen position, reads
  in0,      \* the arguments as they were when the call began
  first,    \* the first completed hermite_multidimensional_numba call and its result
  ub,       \* an access outside a buffer has happened in this call
  plist,    \* the result of a direct partition call
  kernel    \* the libwalrus kernel hermite_multidimensional handed the work to

vars == <<pc, fn, mem, cutoff, C, todo, photons, level, pos, cache, outcome,
          log, step, in0, first, ub, plist, kernel>>

NoStep == [idx |-> <<>>, i |-> 0, reads |-> {}, stale |-> {}, photons |-> 0, fn |-> "none",
           changed |-> {}]
EmptyHeap == [R |-> <<>>, y |-> <<>>, array |-> NoArray,
              dG_dC |-> NoArray, dG_dR |-> NoArray, dG_dy |-> NoArray]
NoArgs == [R |-> <<>>, y |-> <<>>, yGiven |-> TRUE, array |-> NoArray, srcC |-> 0,
           srcCutoff |-> <<>>]
NoFirst == [set |-> FALSE, R |-> <<>>, y |-> <<>>, cutoff |-> <<>>, C |-> 0, result |-> NoArray]
NoKernel == [name |-> "none", shape |-> <<>>]

\* ------------------------------------------------------------ inputs
\* Square matrices that pass input_validation, one symmetric and one not
RSet(n) == { [i \in 1..n |-> [l \in 1..n |-> IF i = l THEN 2 ELSE 1]],
             [i \in 1..n |-> [l \in 1..n |-> (3 * i + l) % 5]] }
\* n x m matrices; the engines are handed them without input_validation
RectSet(n, m) == { [i \in 1..n |-> [l \in 1..m |-> (3 * i + l) % 5]] }
YVec(m) == [j \in 1..m |-> j + 2]
\* the lengths of y tried against an n x n matrix: n, and one off either way
YLens(n) == {n - 1, n, n + 1}
CSet == {1, 2}
\* cutoff as the caller passes it: an int, or one entry per mode
CutoffArgs(n) ==
  {[isInt |-> TRUE, val |-> <<c>>] : c \in 1..MaxCutoff}
    \cup {[isInt |-> FALSE, val |-> t] : t \in [1..n -> 1..MaxCutoff]}
\* the cutoffs tried against a value tensor of the given shape: an int, the shape
\* itself, and the shape with one entry one smaller or one larger
GradCutoffArgs(shape) ==
  {[isInt |-> TRUE, val |-> <<c>>] : c \in 1..MaxCutoff}
    \cup {[isInt |-> FALSE, val |-> shape]}
    \cup {[isInt |-> FALSE, val |-> [shape EXCEPT ![j] = shape[j] + d]] :
            <<j, d>> \in {<<a, b>> \in (1..Len(shape)) \X {-1, 1} : shape[a] + b >= 1}}
\* what an access outside a buffer may find
Garbage == {0, 1}

\* if isinstance(cutoff, int): cutoff = tuple([cutoff] * num_indices); cutoff = tuple(cutoff)
CutoffTuple(arg, num_indices) ==
  IF arg.isInt THEN [j \in 1..num_indices |-> arg.val[1]] ELSE arg.val

\* range(1, sum(cutoff) - num_indices + 1), with variants that start at 0, that
\* stop one level early and that run downwards
PhotonRangeShort(ct, num_indices) == RangeFrom(1, SumSeq(ct) - num_indices)
PhotonRangeFromZero(ct, num_indices) == RangeFrom(0, SumSeq(ct) - num_indices + 1)
PhotonRangeDescending(ct, num_indices) ==
  [j \in 1..(SumSeq(ct) - num_indices) |-> SumSeq(ct) - num_indices + 1 - j]
PhotonRange(ct, num_indices) == RangeFrom(1, SumSeq(ct) - num_indices + 1)

\* array * C where array / C was meant
ArrayMul(t, c) == [t EXCEPT !.data = [k \in DOMAIN t.data |-> Mul(t.data[k], c)]]

\* array / C
ArrayDiv(t, c) == [t EXCEPT !.data = [k \in DOMAIN t.data |-> Div(t.data[k], c)]]

ToSet(sq) == {sq[j] : j \in 1..Len(sq)}

\* the entries that hold their final value once the stores in lg are done
FinalEntries(lg, n) == ToSet(lg) \cup {ZeroIndex(n)}

\* the places where heap h2 differs from heap h1
HeapDiff(h1, h2) ==
  {<<nm, k>> \in {"array", "dG_dC", "dG_dR", "dG_dy"} \X DOMAIN h1.array.data :
     /\ Allocated(h1[nm])
     /\ h1[nm].data[k] # h2[nm].data[k]}
    \cup {<<nm, <<>>>> : nm \in {a \in {"array", "dG_dC", "dG_dR", "dG_dy"} :
                                   h1[a].shape # h2[a].shape}}
    \cup {<<nm, <<>>>> : nm \in {a \in {"R", "y"} : h1[a] # h2[a]}}

StepRecord(f, idx, lg, p, h1, h2) ==
  [idx |-> idx, i |-> FirstPositive(idx), reads |-> StepReads(idx),
   stale |-> StepReads(idx) \ FinalEntries(lg, Len(idx)), photons |-> p, fn |-> f,
   changed |-> HeapDiff(h1, h2)]

\* --------------------------------------------------------- the engines
\* a slip: only a y that is too short is refused
IncompatibleIfShorter(Rm, yv) == Len(yv) < Len(Rm)

\* n, _ = R.shape; y.shape[0] != n
Incompatible(Rm, yv) == Len(yv) # Len(Rm)

\* hermite_multidimensional_numba(R, cutoff, y, C), up to the photon loops
CallNumba(Rin, yin, arg, Cin) ==
  LET num_indices == Len(yin)
      ct == CutoffTuple(arg, num_indices)
  IN /\ fn' = "numba"
     /\ in0' = [NoArgs EXCEPT !.R = Rin, !.y = yin]
     /\ step' = NoStep
     /\ ub' = FALSE
     /\ photons' = 0
     /\ level' = <<>>
     /\ pos' = 1
     /\ C' = Cin
     /\ IF Incompatible(Rin, yin)
        THEN /\ pc' = "done"
             /\ outcome' = "ValueError"
             /\ mem' = [EmptyHeap EXCEPT !.R = Rin, !.y = yin]
             /\ cutoff' = <<>>
             /\ todo' = <<>>
             /\ log' = <<>>
        ELSE /\ pc' = "sweep"
             /\ outcome' = "none"
             /\ mem' = [EmptyHeap EXCEPT !.R = Rin, !.y = yin,
                          !.array = Store(Zeros(ct), ZeroIndex(num_indices), Cin)]
             /\ cutoff' = ct
             /\ todo' = PhotonRange(ct, num_indices)
             /\ log' = <<ZeroIndex(num_indices)>>
     /\ UNCHANGED <<cache, first, plist, kernel>>

\* grad_hermite_multidimensional_numba(array, R, cutoff, y, C), up to the photon
\* loops; array and R are the ones the value run left, y is passed anew
CallGrad(yin, arg, Cin) ==
  LET num_indices == Len(yin)
      ct == CutoffTuple(arg, num_indices)
  IN /\ fn' = "grad"
     /\ in0' = [R |-> mem.R, y |-> yin, yGiven |-> TRUE, array |-> mem.array, srcC |-> C,
                srcCutoff |-> cutoff]
     /\ step' = NoStep
     /\ ub' = FALSE
     /\ photons' = 0
     /\ level' = <<>>
     /\ pos' = 1
     /\ C' = Cin
     /\ log' = <<>>
     /\ IF Incompatible(mem.R, yin)
        THEN /\ pc' = "done"
             /\ outcome' = "ValueError"
             /\ mem' = [mem EXCEPT !.y = yin]
             /\ cutoff' = <<>>
             /\ todo' = <<>>
        ELSE /\ pc' = "sweep"
             /\ outcome' = "none"
             /\ mem' = [mem EXCEPT !.y = yin,
                          !.dG_dC = ArrayDiv(mem.array, Cin),
                          !.dG_dR = Zeros(mem.array.shape),
                          !.dG_dy = Zeros(mem.array.shape)]
             /\ cutoff' = ct
             /\ todo' = PhotonRange(ct, num_indices)
     /\ UNCHANGED <<cache, first, plist, kernel>>

\* for photons in range(...): for idx in partition(photons, cutoff):
\* the inner loop is exhausted and the outer loop takes its next photon number
NextLevel ==
  /\ pc = "sweep"
  /\ pos > Len(level)
  /\ todo # <<>>
  /\ LET r == CachedPartition(cache, Head(todo), cutoff)
     IN /\ photons' = Head(todo)
        /\ todo' = Tail(todo)
        /\ level' = r.val
        /\ cache' = r.cache
        /\ pos' = 1
  /\ UNCHANGED <<pc, fn, mem, cutoff, C, outcome, log, step, in0, first, ub,
                 plist, kernel>>

\* One per-index step of a sweep at idx = level[j], the inner loop then standing
\* at position next of the list rest. An access outside a buffer either kills the
\* process or goes on with whatever it found.
SweepStep(f, j, rest, next) ==
  LET idx == level[j]
      buf == IF f = "numba" THEN mem.array ELSE mem.dG_dR
      run(h, g) == IF f = "numba" THEN fill_hermite_multidimensional_numba_loop(h, idx, g)
                   ELSE fill_grad_hermite_multidimensional_numba_loop(h, idx, g)
      inb == /\ StepInBounds(buf.shape, idx)
             /\ StepInBounds(mem.array.shape, idx)
             /\ StepRInBounds(mem.R, idx)
  IN /\ pc = "sweep"
     /\ fn = f
     /\ \E o \in (IF inb THEN {"ok"} ELSE {"crash", "garbage"}) :
        \E g \in (IF o = "garbage" THEN Garbage ELSE {0}) :
          IF o = "crash"
          THEN /\ pc' = "done"
               /\ outcome' = "crash"
               /\ ub' = TRUE
               /\ step' = StepRecord(f, idx, log, photons, mem, mem)
               /\ UNCHANGED <<mem, log, level, pos>>
          ELSE IF inb /\ DivTrap(idx)
          THEN /\ pc' = "done"
               /\ outcome' = "ZeroDivisionError"
               /\ step' = StepRecord(f, idx, log, photons, mem, mem)
               /\ UNCHANGED <<mem, log, level, pos, ub>>
          ELSE /\ mem' = run(mem, g)
               /\ step' = StepRecord(f, idx, log, photons, mem, mem')
               /\ log' = Append(log, idx)
               /\ level' = rest
               /\ pos' = next
               /\ ub' = (ub \/ ~inb)
               /\ UNCHANGED <<pc, outcome>>
     /\ UNCHANGED <<fn, cutoff, C, todo, photons, cache, in0, first, plist, kernel>>

\* array = fill_hermite_multidimensional_numba_loop(array, idx, R, y)
ValueStep ==
  /\ pos <= Len(level)
  /\ SweepStep("numba", pos, level, pos + 1)

\* dG_dR, dG_dy = fill_grad_hermite_multidimensional_numba_loop(dG_dR, dG_dy, array, idx, R, y)
GradStep ==
  /\ pos <= Len(level)
  /\ SweepStep("grad", pos, level, pos + 1)

\* return array
NumbaReturn ==
  /\ pc = "sweep"
  /\ fn = "numba"
  /\ pos > Len(level)
  /\ todo = <<>>
  /\ pc' = "done"
  /\ outcome' = "returned"
  /\ first' = IF first.set THEN first
              ELSE [set |-> TRUE, R |-> in0.R, y |-> in0.y, cutoff |-> cutoff, C |-> C,
                    result |-> mem.array]
  /\ UNCHANGED <<fn, mem, cutoff, C, todo, photons, level, pos, cache, log, step, in0,
                 ub, plist, kernel>>

\* return dG_dC, dG_dR, dG_dy
GradReturn ==
  /\ pc = "sweep"
  /\ fn = "grad"
  /\ pos > Len(level)
  /\ todo = <<>>
  /\ pc' = "done"
  /\ outcome' = "returned"
  /\ UNCHANGED <<fn, mem, cutoff, C, todo, photons, level, pos, cache, log, step, in0,
                 first, ub, plist, kernel>>

\* ------------------------------------------- hermite_multidimensional
\* R @ y
MatVec(Rm, yv) ==
  LET RECURSIVE Dot(_, _)
      Dot(row, j) == IF j = 0 THEN 0 ELSE Add(Dot(row, j - 1), Mul(row[j], yv[j]))
  IN [i \in 1..Len(Rm) |-> Dot(Rm[i], Len(yv))]

RECURSIVE Pow(_, _)
Pow(b, e) == IF e = 0 THEN 1 ELSE b * Pow(b, e - 1)

\* hermite_multidimensional(R, cutoff, y, renorm, make_tensor, modified) for an R
\* that passes input_validation: how the call ends, the y it settles on and the
\* libwalrus kernel it hands the work to (real: R and y are real within tolerance)
RECURSIVE hermite_multidimensional(_, _, _, _, _, _, _, _)
hermite_multidimensional(Rm, cut, yGiven, yv, renorm, make_tensor, modified, real) ==
  LET n == Len(Rm)
  IN IF (~modified) /\ yGiven /\ Len(yv) = n
     THEN hermite_multidimensional(Rm, cut, TRUE, MatVec(Rm, yv), renorm, make_tensor,
                                   TRUE, real)
     ELSE LET y1 == IF yGiven THEN yv ELSE [j \in 1..n |-> 0]
          IN IF Incompatible(Rm, y1)
             THEN [outcome |-> "ValueError", y |-> y1, kernel |-> NoKernel]
             ELSE [outcome |-> "returned", y |-> y1,
                   kernel |-> [name |-> IF real THEN (IF renorm THEN "rhmr" ELSE "hmr")
                                        ELSE (IF renorm THEN "rhm" ELSE "hm"),
                               shape |-> IF make_tensor THEN [j \in 1..n |-> cut]
                                         ELSE <<Pow(cut, n)>>]]

CallHermite(Rin, cut, yGiven, yin, renorm, make_tensor, modified, real) ==
  LET r == hermite_multidimensional(Rin, cut, yGiven, yin, renorm, make_tensor, modified,
                                    real)
  IN /\ fn' = "hermite"
     /\ pc' = "done"
     /\ outcome' = r.outcome
     /\ kernel' = r.kernel
     /\ mem' = [EmptyHeap EXCEPT !.R = Rin, !.y = r.y]
     /\ in0' = [NoArgs EXCEPT !.R = Rin, !.y = yin, !.yGiven = yGiven]
     /\ cutoff' = <<cut>>
     /\ UNCHANGED <<C, todo, photons, level, pos, cache, log, step, first, ub, plist>>

\* ------------------------------------------------------ specifications
InitCommon ==
  /\ mem = EmptyHeap
  /\ C = 0
  /\ todo = <<>>
  /\ level = <<>>
  /\ pos = 1
  /\ cache = <<>>
  /\ outcome = "none"
  /\ log = <<>>
  /\ step = NoStep
  /\ in0 = NoArgs
  /\ first = NoFirst
  /\ ub = FALSE
  /\ plist = <<>>
  /\ kernel = NoKernel

Init ==
  /\ pc = "idle"
  /\ fn = "none"
  /\ cutoff = <<>>
  /\ photons = 0
  /\ InitCommon

\* A first call of the value engine, with any of the inputs
StartNumba ==
  /\ pc = "idle"
  /\ \E n \in 1..MaxN : \E Rin \in RSet(n) : \E m \in YLens(n) :
       \E arg \in CutoffArgs(m) : \E Cin \in CSet :
         CallNumba(Rin, YVec(m), arg, Cin)

\* The gradient engine called on the tensor the value engine returned, with any
\* cutoff, C and y
StartGrad ==
  /\ pc = "done"
  /\ fn = "numba"
  /\ outcome = "returned"
  /\ \E m \in YLens(Len(mem.R)) : \E arg \in GradCutoffArgs(mem.array.shape) :
       \E Cin \in CSet :
         CallGrad(YVec(m), arg, Cin)

StartHermite ==
  /\ pc = "idle"
  /\ \E n \in 1..MaxN : \E Rin \in RSet(n) : \E m \in YLens(n) : \E cut \in 1..MaxCutoff :
       \E yGiven, renorm, make_tensor, modified, real \in BOOLEAN :
         CallHermite(Rin, cut, yGiven, YVec(m), renorm, make_tensor, modified, real)

Next ==
  \/ StartNumba
  \/ StartGrad
  \/ StartHermite
  \/ NextLevel
  \/ ValueStep
  \/ GradStep
  \/ NumbaReturn
  \/ GradReturn

Spec == Init /\ [][Next]_vars

\* --- partition called directly
InitPartition ==
  /\ pc = "part"
  /\ fn = "partition"
  /\ photons \in 0..MaxPhotons
  /\ cutoff \in UNION {[1..n -> 1..MaxCutoff] : n \in 0..PartMaxLen}
  /\ InitCommon

CallPartition ==
  /\ pc = "part"
  /\ LET r == CachedPartition(cache, photons, cutoff)
     IN /\ plist' = r.val
        /\ cache' = r.cache
  /\ pc' = "done"
  /\ outcome' = "returned"
  /\ UNCHANGED <<fn, mem, cutoff, C, todo, photons, level, pos, log, step, in0, first,
                 ub, kernel>>

NextPartition == CallPartition

SpecPartition == InitPartition /\ [][NextPartition]_vars

\* --- the steps of one photon level taken in any order
Without(sq, j) == SubSeq(sq, 1, j - 1) \o SubSeq(sq, j + 1, Len(sq))

ParStartNumba ==
  /\ pc = "idle"
  /\ \E n \in 1..MaxN : \E Rin \in RSet(n) : \E arg \in CutoffArgs(n) : \E Cin \in CSet :
       /\ Cardinality(Indices(CutoffTuple(arg, n))) <= MaxParEntries
       /\ CallNumba(Rin, YVec(n), arg, Cin)

\* the gradient engine on the finished value tensor, with the same R, y, cutoff, C
ParStartGrad ==
  /\ pc = "done"
  /\ fn = "numba"
  /\ outcome = "returned"
  /\ CallGrad(mem.y, [isInt |-> FALSE, val |-> cutoff], C)

ParValueStep == \E j \in 1..Len(level) : SweepStep("numba", j, Without(level, j), 1)

ParGradStep == \E j \in 1..Len(level) : SweepStep("grad", j, Without(level, j), 1)

NextPar ==
  \/ ParStartNumba
  \/ ParStartGrad
  \/ NextLevel
  \/ ParValueStep
  \/ ParGradStep
  \/ NumbaReturn
  \/ GradReturn

SpecPar == Init /\ [][NextPar]_vars

\* --- several calls of the value engine in one process
AgainNumba ==
  /\ pc \in {"idle", "done"}
  /\ \E Rin \in RSet(MaxN) : \E c \in 1..MaxCutoff : \E Cin \in CSet :
       CallNumba(Rin, YVec(MaxN), [isInt |-> TRUE, val |-> <<c>>], Cin)

NextCalls ==
  \/ AgainNumba
  \/ NextLevel
  \/ ValueStep
  \/ NumbaReturn

SpecCalls == Init /\ [][NextCalls]_vars

\* --- the engines handed a matrix that is not square, y as long as R has rows
ShapeStartNumba ==
  /\ pc = "idle"
  /\ \E n \in 1..MaxN : \E m \in (1..(MaxN + 1)) \ {n} : \E Rin \in RectSet(n, m) :
       \E arg \in CutoffArgs(n) : \E Cin \in CSet :
         CallNumba(Rin, YVec(n), arg, Cin)

\* the gradient engine on what the value engine returned, same R, y, cutoff, C
ShapeStartGrad ==
  /\ pc = "done"
  /\ fn = "numba"
  /\ outcome = "returned"
  /\ CallGrad(mem.y, [isInt |-> FALSE, val |-> cutoff], C)

NextShapes ==
  \/ ShapeStartNumba
  \/ ShapeStartGrad
  \/ NextLevel
  \/ ValueStep
  \/ GradStep
  \/ NumbaReturn
  \/ GradReturn

SpecShapes == Init /\ [][NextShapes]_vars

\* --- one mode, with cutoffs up to and beyond the length of the SQRT table
TableCutoffs == 1..(TableLen + 2)

TableStartNumba ==
  /\ pc = "idle"
  /\ \E Rin \in RSet(1) : \E c \in TableCutoffs : \E Cin \in CSet :
       CallNumba(Rin, YVec(1), [isInt |-> TRUE, val |-> <<c>>], Cin)

\* the gradient engine on what the value engine returned, same R, y, cutoff, C
TableStartGrad ==
  /\ pc = "done"
  /\ fn = "numba"
  /\ outcome = "returned"
  /\ CallGrad(mem.y, [isInt |-> FALSE, val |-> cutoff], C)

NextTable ==
  \/ TableStartNumba
  \/ TableStartGrad
  \/ NextLevel
  \/ ValueStep
  \/ GradStep
  \/ NumbaReturn
  \/ GradReturn

SpecTable == Init /\ [][NextTable]_vars

\* --- the engines as functions of their arguments (matching shapes), the steps
\* of each level in the order partition lists them
RECURSIVE SweepList(_, _, _)
SweepList(h, lst, f) ==
  IF lst = <<>> THEN h
  ELSE SweepList(IF f = "numba"
                 THEN fill_hermite_multidimensional_numba_loop(h, Head(lst), 0)
                 ELSE fill_grad_hermite_multidimensional_numba_loop(h, Head(lst), 0),
                 Tail(lst), f)

RECURSIVE SweepLevels(_, _, _, _)
SweepLevels(h, ps, ct, f) ==
  IF ps = <<>> THEN h
  ELSE SweepLevels(SweepList(h, Partition(Head(ps), ct), f), Tail(ps), ct, f)

hermite_multidimensional_numba(Rm, ct, yv, Cin) ==
  SweepLevels([EmptyHeap EXCEPT !.R = Rm, !.y = yv,
                 !.array = Store(Zeros(ct), ZeroIndex(Len(yv)), Cin)],
              PhotonRange(ct, Len(yv)), ct, "numba").array

grad_hermite_multidimensional_numba(arr, Rm, ct, yv, Cin) ==
  LET h == SweepLevels([EmptyHeap EXCEPT !.R = Rm, !.y = yv, !.array = arr,
                          !.dG_dC = ArrayDiv(arr, Cin),
                          !.dG_dR = Zeros(arr.shape),
                          !.dG_dy = Zeros(arr.shape)],
                       PhotonRange(ct, Len(yv)), ct, "grad")
  IN <<h.dG_dC, h.dG_dR, h.dG_dy>>

\* ------------------------------------------------------------- claims
NoDup(sq) == \A a, b \in 1..Len(sq) : a # b => sq[a] # sq[b]

\* C1: partition(p, cutoff) lists exactly the multi-indices k of length len(cutoff)
\* with sum(k) = p and 0 <= k_j < cutoff_j, each once; for p = 0 that is the
\* all-zero index alone, and for p > sum(cutoff) - n it is empty.
C1_PartitionExact ==
  (fn = "partition" /\ pc = "done") =>
    /\ ToSet(plist) = {k \in Indices(cutoff) : SumSeq(k) = photons}
    /\ NoDup(plist)
    /\ (photons = 0 => plist = <<ZeroIndex(Len(cutoff))>>)
    /\ (photons > SumSeq(cutoff) - Len(cutoff) => plist = <<>>)

C1_Witness ==
  /\ fn = "partition" /\ pc = "done"
  /\ Len(cutoff) = 3 /\ photons = 3 /\ Len(plist) >= 6

\* C2: every tensor entry a per-index step of the value sweep or of the gradient
\* sweep reads lies one or two photon levels below idx, within the cutoff, and
\* held its final value when it was read.
C2_ReadsAreFinal ==
  (step.i # 0) =>
    /\ \A r \in step.reads :
         /\ SumSeq(step.idx) - SumSeq(r) \in {1, 2}
         /\ r \in Indices(cutoff)
    /\ step.stale = {}

C2_Witness ==
  /\ step.fn = "grad" /\ fn = "grad"
  /\ Cardinality(step.reads) >= 3
  /\ \E r \in step.reads : SumSeq(step.idx) - SumSeq(r) = 2

\* C3: in a run of hermite_multidimensional_numba the all-zero entry is set to C
\* and not stored to again, every other index is stored to at most once and only
\* after every index of a lower photon number, and at the return every index
\* within the cutoff has been stored to.
C3_WrittenOnceInOrder ==
  (fn = "numba" /\ outcome \in {"none", "returned"}) =>
    /\ Len(log) >= 1
    /\ log[1] = ZeroIndex(Len(cutoff))
    /\ mem.array.data[ZeroIndex(Len(cutoff))] = C
    /\ NoDup(log)
    /\ \A j \in 1..Len(log) : \A k \in Indices(cutoff) :
         SumSeq(k) < SumSeq(log[j]) => \E q \in 1..(j - 1) : log[q] = k
    /\ (pc = "done" => ToSet(log) = Indices(cutoff))

C3_Witness ==
  /\ fn = "numba" /\ pc = "done" /\ outcome = "returned"
  /\ Len(log) = 9

\* C5: the position a per-index step chooses is the lowest one with idx[i] > 0,
\* so its divisor is the root of a number >= 1; no step is given the all-zero
\* index and no division by zero happens.
C5_DivisorPositive ==
  /\ outcome # "ZeroDivisionError"
  /\ step.i # 0 =>
       /\ step.idx # ZeroIndex(Len(step.idx))
       /\ step.idx[step.i] >= 1
       /\ \A q \in 1..(step.i - 1) : step.idx[q] = 0

C5_Witness ==
  /\ step.fn = "grad"
  /\ step.i = 2
  /\ step.idx[2] = 2

\* C6: a y whose length differs from R's dimension ends each of the three entry
\* points in ValueError, with no tensor allocated and nothing stored.
C6_MismatchRaises ==
  (fn \in {"numba", "grad", "hermite"} /\ in0.yGiven /\ Len(in0.y) # Len(in0.R)) =>
    /\ pc = "done"
    /\ outcome = "ValueError"
    /\ log = <<>>
    /\ kernel = NoKernel
    /\ mem.array = in0.array
    /\ mem.dG_dC = NoArray /\ mem.dG_dR = NoArray /\ mem.dG_dy = NoArray

C6_Witness ==
  /\ fn = "grad" /\ outcome = "ValueError"
  /\ Len(in0.y) > Len(in0.R)
  /\ Allocated(in0.array)

\* C7: the gradient engine called with a value tensor whose shape is not the
\* declared cutoff ends in an error and returns no gradient triple.
C7_ShapeMismatchFatal ==
  (fn = "grad" /\ outcome = "returned") => mem.array.shape = cutoff

\* C8 as stated: at the all-zero index dG_dC is 1/C, dG_dR and dG_dy are zero.
C8_AsStated ==
  (fn = "grad" /\ outcome = "returned" /\ ~ub /\ C = in0.srcC) =>
    /\ mem.dG_dC.data[ZeroIndex(Len(cutoff))] = Div(1, C)
    /\ mem.dG_dR.data[ZeroIndex(Len(cutoff))] = 0
    /\ mem.dG_dy.data[ZeroIndex(Len(cutoff))] = 0

\* C8: at the all-zero index dG_dC is C/C = 1, dG_dR and dG_dy are zero.
C8_ZeroIndexGradients ==
  (fn = "grad" /\ outcome = "returned" /\ ~ub /\ C = in0.srcC) =>
    /\ mem.dG_dC.data[ZeroIndex(Len(cutoff))] = 1
    /\ mem.dG_dR.data[ZeroIndex(Len(cutoff))] = 0
    /\ mem.dG_dy.data[ZeroIndex(Len(cutoff))] = 0

C8_Witness ==
  /\ fn = "grad" /\ outcome = "returned" /\ ~ub
  /\ C = 2 /\ in0.srcC = 2
  /\ Len(log) >= 3

\* C9: neither engine changes its inputs: R and y are as passed throughout a
\* run, so is the value tensor in a gradient run; a value step changes nothing
\* but array[idx], a gradient step nothing but dG_dR[idx] and dG_dy[idx]
\* (in runs whose stores all fall inside the buffers they address).
C9_InputsUntouched ==
  (fn \in {"numba", "grad"} /\ ~ub /\ outcome \in {"none", "returned"}) =>
    /\ mem.R = in0.R
    /\ mem.y = in0.y
    /\ (fn = "grad" => mem.array = in0.array)
    /\ (step.fn = "numba" => step.changed \subseteq {<<"array", step.idx>>})
    /\ (step.fn = "grad" =>
          step.changed \subseteq {<<"dG_dR", step.idx>>, <<"dG_dy", step.idx>>})

C9_Witness ==
  /\ step.fn = "grad" /\ fn = "grad" /\ ~ub
  /\ step.changed = {<<"dG_dR", step.idx>>, <<"dG_dy", step.idx>>}
  /\ SumSeq(step.idx) >= 3

\* C4: with the steps of each photon level taken in any order, no step reads an
\* entry of its own level, and the value tensor and the gradient tensors come out
\* as they do in the order partition lists.
C4_OrderWithinLevelIrrelevant ==
  /\ step.i # 0 => \A r \in step.reads : SumSeq(r) < step.photons
  /\ (fn = "numba" /\ outcome = "returned") =>
       mem.array = hermite_multidimensional_numba(in0.R, cutoff, in0.y, C)
  /\ (fn = "grad" /\ outcome = "returned") =>
       <<mem.dG_dC, mem.dG_dR, mem.dG_dy>> =
         grad_hermite_multidimensional_numba(in0.array, in0.R, cutoff, in0.y, C)

\* the steps of a level were taken in another order than partition lists them
C4_Witness ==
  /\ fn = "grad" /\ outcome = "returned"
  /\ \E a, b \in 1..Len(log) :
       /\ a < b
       /\ SumSeq(log[a]) = SumSeq(log[b])
       /\ log[a][1] > log[b][1]
  /\ Len(log) = 8

\* C10: a call of hermite_multidimensional_numba returns what the same call
\* returns in a fresh process, whatever calls ran before it, and so the same
\* tensor as an earlier call with the same R, y, cutoff and C.
C10_SameInputsSameTensor ==
  (fn = "numba" /\ outcome = "returned") =>
    /\ mem.array = hermite_multidimensional_numba(in0.R, cutoff, in0.y, C)
    /\ (first.R = in0.R /\ first.y = in0.y /\ first.cutoff = cutoff /\ first.C = C) =>
         mem.array = first.result

\* the first call made again after a call with another cutoff
C10_Witness ==
  /\ fn = "numba" /\ outcome = "returned"
  /\ first.R = in0.R /\ first.y = in0.y /\ first.cutoff = cutoff /\ first.C = C
  /\ Len(log) >= 4
  /\ \E j \in 1..Len(cache) : cache[j].key[2] # cutoff

\* C11: with every cutoff entry 1, hermite_multidimensional_numba takes no
\* per-index step and returns the tensor whose single entry, at the all-zero
\* index, is C.
C11_AllOnesCutoff ==
  (fn = "numba" /\ Len(cutoff) >= 1 /\ \A j \in 1..Len(cutoff) : cutoff[j] = 1) =>
    /\ step = NoStep
    /\ log = <<ZeroIndex(Len(cutoff))>>
    /\ outcome \in {"none", "returned"}
    /\ mem.array.shape = cutoff
    /\ mem.array.data = [k \in {ZeroIndex(Len(cutoff))} |-> C]
    /\ (pc = "done" => outcome = "returned")

C11_Witness ==
  /\ fn = "numba" /\ pc = "done" /\ outcome = "returned"
  /\ cutoff = <<1, 1>>
  /\ C = 2
  /\ photons = 0

\* C12: hermite_multidimensional_numba and grad_hermite_multidimensional_numba
\* called with a matrix R that is not square and a y as long as R has rows end
\* in an error, with no tensor allocated and nothing stored.
C12_NonSquareRaises ==
  (fn \in {"numba", "grad"} /\ \E i \in 1..Len(in0.R) : Len(in0.R[i]) # Len(in0.R)) =>
    /\ pc = "done"
    /\ outcome \notin {"none", "returned"}
    /\ log = <<>>
    /\ mem.array = in0.array
    /\ mem.dG_dC = NoArray /\ mem.dG_dR = NoArray /\ mem.dG_dy = NoArray

\* C13: a step whose SQRT lookup has an index at or beyond the length of the
\* table ends the run in a reported error and no access outside the table
\* happens; with every cutoff entry within the length of the table every
\* lookup index lies inside the table.
C13_TableBoundEnforced ==
  /\ (step.i # 0 /\ \E k \in StepSqrtReads(step.idx) : k >= TableLen) =>
       /\ pc = "done"
       /\ outcome \notin {"none", "returned", "crash"}
       /\ ~ub
  /\ (step.i # 0 /\ \A j \in 1..Len(cutoff) : cutoff[j] <= TableLen) =>
       \A k \in StepSqrtReads(step.idx) : 0 <= k /\ k < TableLen

\* the naive enumerator: every tuple with 0 <= k_j < cutoff_j, filtered by its sum
NaivePartition(p, ct) ==
  SelectSeq(Product([j \in 1..Len(ct) |-> Range(ct[j])]),
            LAMBDA comb : SumSeq(comb) = p)

\* C14: partition returns the same set of multi-indices as the naive
\* generate-then-filter enumerator over the full cutoff range.
C14_SameAsNaive ==
  (fn = "partition" /\ pc = "done") =>
    ToSet(plist) = ToSet(NaivePartition(photons, cutoff))

\* a call where the bound min(photons, cutoff_j - 1) cuts the candidate ranges
C14_Witness ==
  /\ fn = "partition" /\ pc = "done"
  /\ Len(cutoff) = 2
  /\ \A j \in 1..Len(cutoff) : photons < cutoff[j] - 1
  /\ Len(plist) = 2
  /\ Len(NaivePartition(photons, cutoff)) = 2

=============================================================================
